---- MODULE Spec2Model ----
(***************************************************************************)
(* A model of easegrid2.py: the _Grid template class, its six grid         *)
(* variants (M1, M2, S1, N1, S2, N2) with the two polar base classes P1    *)
(* and P2, the parameter store read from grids.yaml, the pixel <-> lon/lat *)
(* transforms, and the lazily cached latitude / longitude arrays with      *)
(* their file-backed and computed retrieval paths.                         *)
(*                                                                         *)
(* Numbers of the program (Python ints and floats) are modelled as exact   *)
(* rationals <<n, d>> in lowest terms with d > 0: floating-point rounding  *)
(* is not modelled.  Arrays are sequences of rows.                         *)
(***************************************************************************)
EXTENDS Integers, Sequences, FiniteSets, TLC

VARIABLES
    _constant,   \* _Grid._constant: the parameter store loaded from grids.yaml
    dat,         \* the files under _dat_path: file name -> file state
    self,        \* the _Grid instance (None before a successful construction)
    ret,         \* outcome of the last call made by the sequential caller
    stdout,      \* number of diagnostic notices written to sys.stdout
    nset,        \* number of times set_coords has been entered
    pc,          \* concurrent accessors: each thread's position
    acc,         \* concurrent accessors: the accessor each thread is running
    loc,         \* concurrent accessors: set_coords' locals (lon, lat) per thread
    out          \* concurrent accessors: what each thread's accessor returned

vars == <<_constant, dat, self, ret, stdout, nset, pc, acc, loc, out>>

None == "None"

-----------------------------------------------------------------------------
(* Bounds of the model *)

\* lon/lat and pixel inputs of forward / inverse range over -MaxCoord..MaxCoord
MaxCoord == 2

-----------------------------------------------------------------------------
(* Exact rational arithmetic standing for Python's numeric operators *)

Abs(n) == IF n < 0 THEN -n ELSE n

RECURSIVE Gcd(_, _)
Gcd(a, b) == IF b = 0 THEN a ELSE Gcd(b, a % b)

Norm(n, d) ==
    LET g == Gcd(Abs(n), Abs(d))
        s == IF d < 0 THEN -1 ELSE 1
    IN  <<(s * n) \div g, (s * d) \div g>>

R(n) == <<n, 1>>
RAdd(a, b) == Norm(a[1] * b[2] + b[1] * a[2], a[2] * b[2])
RSub(a, b) == Norm(a[1] * b[2] - b[1] * a[2], a[2] * b[2])
RMul(a, b) == Norm(a[1] * b[1], a[2] * b[2])
RDiv(a, b) == Norm(a[1] * b[2], a[2] * b[1])
RNeg(a) == <<-a[1], a[2]>>

-----------------------------------------------------------------------------
(* The class hierarchy: each class's own attributes and its base class *)

Classes == {"M1", "M2", "P2", "S2", "N2", "P1", "S1", "N1"}

Base ==
    [c \in Classes |->
        CASE c = "S2" -> "P2" [] c = "N2" -> "P2"
          [] c = "S1" -> "P1" [] c = "N1" -> "P1"
          [] OTHER -> "_Grid"]

Own ==
    [c \in Classes |->
        CASE c = "M1" -> [name |-> "M1", hemi |-> "M", proj |-> "cea", lat_0 |-> "0",
                          lon_0 |-> "0", lat_ts |-> "30", a |-> "6371228.0", units |-> "m"]
          [] c = "M2" -> [name |-> "M2", hemi |-> "M", proj |-> "cea", lat_0 |-> "0",
                          lon_0 |-> "0", lat_1 |-> "30", x_0 |-> "0", y_0 |-> "0",
                          ellps |-> "WGS84", datum |-> "WGS84", units |-> "m"]
          [] c = "P2" -> [name |-> "P2", proj |-> "laea", lon_0 |-> "0", x_0 |-> "0",
                          y_0 |-> "0", ellps |-> "WGS84", datum |-> "WGS84", units |-> "m"]
          [] c = "S2" -> [lat_0 |-> "-90", hemi |-> "S"]
          [] c = "N2" -> [lat_0 |-> "90", hemi |-> "N"]
          [] c = "P1" -> [name |-> "P1", proj |-> "laea", lon_0 |-> "0", x_0 |-> "0",
                          y_0 |-> "0", a |-> "6371228.0", units |-> "m"]
          [] c = "S1" -> [lat_0 |-> "-90", hemi |-> "S"]
          [] c = "N1" -> [lat_0 |-> "90", hemi |-> "N"]]

\* getattr(self, attr, default): the class's own attribute, else its base's
getattr(c, attr, default) ==
    IF attr \in DOMAIN Own[c] THEN Own[c][attr]
    ELSE IF Base[c] \in Classes /\ attr \in DOMAIN Own[Base[c]] THEN Own[Base[c]][attr]
    ELSE default

p_args(c) ==
    CASE getattr(c, "name", None) = "M1" ->
            <<"proj", "lat_0", "lon_0", "lat_ts", "a", "units">>
      [] getattr(c, "name", None) = "M2" ->
            <<"proj", "lat_0", "lon_0", "lat_1", "x_0", "y_0", "ellps", "datum", "units">>
      [] getattr(c, "name", None) = "P2" ->
            <<"proj", "lat_0", "lon_0", "x_0", "y_0", "ellps", "datum", "units">>
      [] getattr(c, "name", None) = "P1" ->
            <<"proj", "lat_0", "lon_0", "x_0", "y_0", "a", "units">>

\* grid_names = _Grid._constant[name].keys()
grid_names(c) == DOMAIN _constant[getattr(c, "name", None)]

-----------------------------------------------------------------------------
(* The parameter store: the candidate contents of grids.yaml *)

Codes == {"g03", "g09", "g12", "g25", "g36"}

K(size, cols, rows, r0, s0) ==
    [size |-> size, cols |-> cols, rows |-> rows, r0 |-> r0, s0 |-> s0]

StoreA ==
    [M1 |-> [g25 |-> K(<<5, 2>>, 3, 2, R(1), <<1, 2>>),
             g12 |-> K(<<5, 4>>, 3, 2, R(1), <<1, 2>>)],
     M2 |-> [g09 |-> K(<<9, 4>>, 3, 2, R(1), <<1, 2>>)],
     P1 |-> [g25 |-> K(<<5, 2>>, 2, 2, <<1, 2>>, <<1, 2>>)],
     P2 |-> [g09 |-> K(<<9, 4>>, 2, 2, <<1, 2>>, <<1, 2>>)]]

StoreB ==
    [M1 |-> [g25 |-> K(R(3), 2, 3, <<1, 2>>, R(1)),
             g36 |-> K(R(4), 2, 2, <<1, 2>>, <<1, 2>>)],
     M2 |-> [g25 |-> K(R(3), 2, 3, <<1, 2>>, R(1))],
     P1 |-> [g12 |-> K(R(2), 3, 2, R(1), <<1, 2>>)],
     P2 |-> [g36 |-> K(R(4), 2, 2, <<1, 2>>, <<1, 2>>)]]

Stores == {StoreA, StoreB}

-----------------------------------------------------------------------------
(* The projection: pyproj.Proj built from the p_args dictionary *)

\* p.setter: dict(zip(val, [getattr(self, v, None) for v in val]))
p_dict(c) ==
    [k \in {p_args(c)[i] : i \in 1..Len(p_args(c))} |-> getattr(c, k, None)]

\* The projection is an external library.  It is modelled by a pair of mutually
\* inverse maps that depend on the projection parameters: an anisotropic scaling for
\* the cylindrical projection and a sheared map, mirrored by the sign of lat_0, for
\* the azimuthal one.
PolarSign(p) == IF p["lat_0"] = "-90" THEN R(-1) ELSE R(1)

\* self.p(lon, lat)
ProjFwd(p, lon, lat) ==
    IF p["proj"] = "cea"
    THEN <<RMul(R(2), lon), RMul(R(3), lat)>>
    ELSE <<RAdd(lon, RMul(R(2), lat)), RMul(PolarSign(p), lat)>>

\* self.p(x, y, inverse=True)
ProjInv(p, x, y) ==
    IF p["proj"] = "cea"
    THEN <<RDiv(x, R(2)), RDiv(y, R(3))>>
    ELSE <<RSub(x, RMul(R(2), RDiv(y, PolarSign(p)))), RDiv(y, PolarSign(p))>>

-----------------------------------------------------------------------------
(* _Grid.__init__ *)

\* An attribute the instance does not have (hasattr is False).
NoAttr == <<>>

\* No instance: the caller holds no grid.
NoGrid == [cls |-> None, latitude |-> NoAttr, longitude |-> NoAttr]

\* __init__ with the membership test of grid_name left out: the store lookup is
\* then the first statement to fail, after grid_name and the projection are set.
init_unchecked(c, grid_name) ==
    IF grid_name \notin grid_names(c)
    THEN [raised |-> TRUE, exc |-> "KeyError", text |-> grid_name,
          names |-> {}, assigned |-> {"grid_name", "_p"}]
    ELSE [raised |-> FALSE,
          obj |-> [cls |-> c,
                   grid_name |-> grid_name,
                   p |-> p_dict(c),
                   constant |-> _constant[getattr(c, "name", None)][grid_name],
                   grid_id |-> getattr(c, "name", None) \o "_"
                               \o getattr(c, "hemi", "G") \o "_" \o grid_name,
                   latitude |-> NoAttr,
                   longitude |-> NoAttr]]

\* __init__ with the hemisphere marker left out of grid_id.
init_nohemi(c, grid_name) ==
    IF grid_name \notin grid_names(c)
    THEN [raised |-> TRUE, exc |-> "Exception", text |-> "Valid grid name in ",
          names |-> grid_names(c), assigned |-> {}]
    ELSE [raised |-> FALSE,
          obj |-> [cls |-> c,
                   grid_name |-> grid_name,
                   p |-> p_dict(c),
                   constant |-> _constant[getattr(c, "name", None)][grid_name],
                   grid_id |-> getattr(c, "name", None) \o "_" \o grid_name,
                   latitude |-> NoAttr,
                   longitude |-> NoAttr]]

\* The statements of __init__ in order.  The result is either the raised exception,
\* with the names of the instance attributes assigned before the raise, or the
\* constructed instance.
init(c, grid_name) ==
    IF grid_name \notin grid_names(c)
    THEN [raised |-> TRUE, exc |-> "Exception", text |-> "Valid grid name in ",
          names |-> grid_names(c), assigned |-> {}]
    ELSE [raised |-> FALSE,
          obj |-> [cls |-> c,
                   grid_name |-> grid_name,
                   p |-> p_dict(c),
                   constant |-> _constant[getattr(c, "name", None)][grid_name],
                   grid_id |-> getattr(c, "name", None) \o "_"
                               \o getattr(c, "hemi", "G") \o "_" \o grid_name,
                   latitude |-> NoAttr,
                   longitude |-> NoAttr]]

-----------------------------------------------------------------------------
(* Properties and transforms *)

\* geotransform with the two origins exchanged.
geotransform_swapped(g) ==
    <<g.constant.r0, g.constant.size, R(0), g.constant.s0, R(0), g.constant.size>>

\* geotransform
geotransform(g) ==
    <<g.constant.s0, g.constant.size, R(0), g.constant.r0, R(0), g.constant.size>>

\* forward without the sign flip on y.
forward_noflip(g, lon, lat) ==
    LET xy == ProjFwd(g.p, lon, lat)
        dR == RDiv(xy[1], g.constant.size)
        dS == RDiv(xy[2], g.constant.size)
    IN  <<RAdd(RAdd(g.constant.r0, dR), R(1)), RAdd(RAdd(g.constant.s0, dS), R(1))>>

\* forward(lon, lat) -> (r_, s_)
forward(g, lon, lat) ==
    LET xy == ProjFwd(g.p, lon, lat)
        dR == RDiv(xy[1], g.constant.size)
        dS == RDiv(RNeg(xy[2]), g.constant.size)
    IN  <<RAdd(RAdd(g.constant.r0, dR), R(1)), RAdd(RAdd(g.constant.s0, dS), R(1))>>

\* inverse(r_, s_) -> (lon, lat)
inverse(g, r_, s_) ==
    LET x_ == RMul(RSub(RSub(r_, g.constant.r0), R(1)), g.constant.size)
        y_ == RMul(RSub(RSub(s_, g.constant.s0), R(1)), RNeg(g.constant.size))
    IN  ProjInv(g.p, x_, y_)

-----------------------------------------------------------------------------
(* The data directory: the binary coordinate files *)

FILES == [g25 |-> "L", g12 |-> "H"]

Hemis == {"M", "N", "S"}
LatFiles == {h \o t \o "LATLSB" : h \in Hemis, t \in {"L", "H"}}
LonFiles == {h \o t \o "LONLSB" : h \in Hemis, t \in {"L", "H"}}
FileNames == LatFiles \cup LonFiles

\* coord_scale = 1e-05
coord_scale == <<1, 100000>>

\* Element counts of the data files the environment may hold.
FileLens == {4, 6}

\* The integers stored in a file of n elements (degrees x 100000, never zero).
FileData(isLat, n) ==
    [i \in 1..n |-> IF isLat THEN 1000000 * i + 500000 ELSE -(2000000 * i) - 300000]

\* A file is absent, present but unreadable, or holds a flat sequence of integers.
FileStates(isLat) ==
    {[kind |-> "absent"], [kind |-> "denied"]}
    \cup {[kind |-> "data", elems |-> FileData(isLat, n)] : n \in FileLens}

\* The second character of a family name (name[1]).
Char2 == [M1 |-> "1", M2 |-> "2", P1 |-> "1", P2 |-> "2"]

Val(v) == [raised |-> FALSE, val |-> v]
Raise(e) == [raised |-> TRUE, exc |-> e]

\* _coord_file(): self.hemi is an AttributeError on a class without hemi
coord_file(g) ==
    IF getattr(g.cls, "hemi", None) = None
    THEN Raise("AttributeError")
    ELSE LET coord_ == getattr(g.cls, "hemi", None) \o FILES[g.grid_name]
         IN  Val(<<coord_ \o "LATLSB", coord_ \o "LONLSB">>)

\* ndarray.resize((rows, cols)): row-major refill, truncated or padded with zeros
resize(elems, rows, cols) ==
    [i \in 1..rows |->
        [j \in 1..cols |->
            LET k == (i - 1) * cols + j
            IN  IF k <= Len(elems) THEN elems[k] ELSE 0]]

\* _read_coord(file_name)
read_coord(g, file_name) ==
    LET f == dat[file_name]
    IN  CASE f.kind = "absent" -> Raise("FileNotFoundError")
          [] f.kind = "denied" -> Raise("PermissionError")
          [] OTHER ->
                LET coord == resize(f.elems, g.constant.rows, g.constant.cols)
                IN  Val([i \in 1..g.constant.rows |->
                            [j \in 1..g.constant.cols |->
                                RMul(R(coord[i][j]), coord_scale)]])

\* from_file() -> (lon, lat)
from_file(g) ==
    IF Char2[getattr(g.cls, "name", None)] # "1" THEN Raise("AssertionError")
    ELSE IF g.grid_name \notin DOMAIN FILES THEN Raise("AssertionError")
    ELSE LET cf == coord_file(g)
             lat == read_coord(g, cf.val[1])
             lon == read_coord(g, cf.val[2])
         IN  IF cf.raised THEN cf
             ELSE IF lat.raised THEN lat
             ELSE IF lon.raised THEN lon
             ELSE Val(<<lon.val, lat.val>>)

\* The assert of forward and inverse.
UnitsOk(g) == getattr(g.cls, "units", None) = "m"

\* from_array passing the row indices as inverse's first argument.
from_array_rowfirst(g) ==
    LET rows == g.constant.rows
        cols == g.constant.cols
        s_ == [i \in 1..rows |-> [j \in 1..cols |-> R(j)]]
        r_ == [i \in 1..rows |-> [j \in 1..cols |-> R(i)]]
        ll == [i \in 1..rows |-> [j \in 1..cols |-> inverse(g, r_[i][j], s_[i][j])]]
    IN  IF ~UnitsOk(g) THEN Raise("AssertionError")
        ELSE Val(<<[i \in 1..rows |-> [j \in 1..cols |-> ll[i][j][1]]],
                   [i \in 1..rows |-> [j \in 1..cols |-> ll[i][j][2]]]>>)

\* from_array() -> (lon, lat): inverse() over the meshgrid of column and row indices
from_array(g) ==
    LET rows == g.constant.rows
        cols == g.constant.cols
        s_ == [i \in 1..rows |-> [j \in 1..cols |-> R(j)]]
        r_ == [i \in 1..rows |-> [j \in 1..cols |-> R(i)]]
        ll == [i \in 1..rows |-> [j \in 1..cols |-> inverse(g, s_[i][j], r_[i][j])]]
    IN  IF ~UnitsOk(g) THEN Raise("AssertionError")
        ELSE Val(<<[i \in 1..rows |-> [j \in 1..cols |-> ll[i][j][1]]],
                   [i \in 1..rows |-> [j \in 1..cols |-> ll[i][j][2]]]>>)

\* The try / except of set_coords: (lon, lat) and whether the notice was written.
coords(g) ==
    LET ff == from_file(g)
    IN  IF ff.raised
        THEN [notice |-> TRUE, res |-> from_array(g)]
        ELSE [notice |-> FALSE, res |-> ff]

\* The instance after set_coords has assigned both attributes.
set_coords(g) ==
    LET c == coords(g)
    IN  [g EXCEPT !.latitude = c.res.val[2], !.longitude = c.res.val[1]]

-----------------------------------------------------------------------------
(* The sequential caller: one action per operation *)

Inputs == {<<R(a), R(b)>> : a, b \in -MaxCoord..MaxCoord}

NoRet == [op |-> "none", args |-> <<>>, raised |-> FALSE, val |-> <<>>,
          chained |-> FALSE, from |-> <<>>, hit |-> FALSE]

Call(op, args, r) ==
    [op |-> op, args |-> args, raised |-> r.raised,
     val |-> IF r.raised THEN <<r.exc>> ELSE r.val,
     chained |-> FALSE, from |-> <<>>, hit |-> FALSE]

Threads == {1, 2}

thr == <<pc, acc, loc, out>>

NoOut == [done |-> FALSE, raised |-> FALSE, val |-> <<>>]

Idle ==
    /\ pc = [t \in Threads |-> "idle"]
    /\ acc = [t \in Threads |-> None]
    /\ loc = [t \in Threads |-> <<>>]
    /\ out = [t \in Threads |-> NoOut]

Env ==
    /\ _constant \in Stores
    /\ \E lat \in FileStates(TRUE), lon \in FileStates(FALSE) :
          dat = [f \in FileNames |-> IF f \in LatFiles THEN lat ELSE lon]

Init ==
    /\ Env
    /\ self = NoGrid
    /\ ret = NoRet
    /\ stdout = 0
    /\ nset = 0
    /\ Idle

\* grid = Cls(grid_name)
Construct(c, grid_name) ==
    /\ self.cls = None
    /\ LET r == init(c, grid_name)
       IN  /\ self' = IF r.raised THEN NoGrid ELSE r.obj
           /\ ret' = [op |-> "__init__", args |-> <<c, grid_name>>, raised |-> r.raised,
                      val |-> IF r.raised THEN <<r>> ELSE <<>>,
                      chained |-> FALSE, from |-> <<>>, hit |-> FALSE]
    /\ UNCHANGED <<_constant, dat, stdout, nset, thr>>

\* grid.geotransform
Geotransform ==
    /\ self.cls # None
    /\ ret' = Call("geotransform", <<>>, Val(geotransform(self)))
    /\ UNCHANGED <<_constant, dat, self, stdout, nset, thr>>

\* The arguments a caller passes: fresh ones, or the pair the last call of the
\* opposite transform returned.
Feed(op) == IF ret.op = op /\ ~ret.raised /\ ~ret.chained THEN {ret.val} ELSE {}

\* grid.forward(lon, lat)
Forward ==
    /\ self.cls # None
    /\ \E a \in Inputs \cup Feed("inverse") :
          LET r == IF UnitsOk(self) THEN Val(forward(self, a[1], a[2]))
                   ELSE Raise("AssertionError")
              fed == a \in Feed("inverse")
          IN  ret' = [Call("forward", a, r) EXCEPT
                        !.chained = fed, !.from = IF fed THEN ret.args ELSE <<>>]
    /\ UNCHANGED <<_constant, dat, self, stdout, nset, thr>>

\* grid.inverse(r_, s_)
Inverse ==
    /\ self.cls # None
    /\ \E a \in Inputs \cup Feed("forward") :
          LET r == IF UnitsOk(self) THEN Val(inverse(self, a[1], a[2]))
                   ELSE Raise("AssertionError")
              fed == a \in Feed("forward")
          IN  ret' = [Call("inverse", a, r) EXCEPT
                        !.chained = fed, !.from = IF fed THEN ret.args ELSE <<>>]
    /\ UNCHANGED <<_constant, dat, self, stdout, nset, thr>>

\* hasattr asked for a name no assignment ever nset.
hasattr_misspelt(g, a) == FALSE

\* both accessors testing for '_latitude'.
hasattr_latitude(g, a) == g["latitude"] # NoAttr

\* hasattr(self, '_latitude') / hasattr(self, '_longitude')
hasattr(g, a) == g[a] # NoAttr

\* The body of an accessor: set_coords() when the attribute is missing, then the
\* attribute.  set_coords propagates what from_array raises.
Access(a) ==
    /\ self.cls # None
    /\ IF hasattr(self, a)
       THEN /\ ret' = [Call(a, <<>>, Val(self[a])) EXCEPT !.hit = TRUE]
            /\ UNCHANGED <<self, stdout, nset>>
       ELSE LET c == coords(self)
                g == set_coords(self)
            IN  /\ nset' = nset + 1
                /\ stdout' = IF c.notice THEN stdout + 1 ELSE stdout
                /\ IF c.res.raised
                   THEN /\ ret' = Call(a, <<>>, c.res)
                        /\ UNCHANGED self
                   ELSE /\ self' = g
                        /\ ret' = Call(a, <<>>, Val(g[a]))
    /\ UNCHANGED <<_constant, dat, thr>>

\* grid.latitude
Latitude == Access("latitude")

\* grid.longitude
Longitude == Access("longitude")

\* grid.from_file()
FromFile ==
    /\ self.cls # None
    /\ ret' = Call("from_file", <<>>, from_file(self))
    /\ UNCHANGED <<_constant, dat, self, stdout, nset, thr>>

\* grid.from_array()
FromArray ==
    /\ self.cls # None
    /\ ret' = Call("from_array", <<>>, from_array(self))
    /\ UNCHANGED <<_constant, dat, self, stdout, nset, thr>>

\* grid._read_coord(file_name)
ReadCoord ==
    /\ self.cls # None
    /\ \E f \in {"NLLATLSB", "NLLONLSB", "MHLATLSB", "SHLONLSB"} :
          ret' = Call("_read_coord", <<f>>, read_coord(self, f))
    /\ UNCHANGED <<_constant, dat, self, stdout, nset, thr>>

Next ==
    \/ \E c \in Classes, n \in Codes : Construct(c, n)
    \/ Geotransform
    \/ Latitude
    \/ Longitude
    \/ FromFile
    \/ FromArray
    \/ ReadCoord

Spec == Init /\ [][Next]_vars

-----------------------------------------------------------------------------
(* The transforms alone, on any constructed grid *)

\* Every instance a constructor call of some class returns under the store.
Grids ==
    {init(cn[1], cn[2]).obj : cn \in {x \in Classes \X Codes : x[2] \in grid_names(x[1])}}

InitTransform ==
    /\ _constant \in Stores
    /\ dat = [f \in FileNames |-> [kind |-> "absent"]]
    /\ self \in Grids
    /\ ret = NoRet
    /\ stdout = 0
    /\ nset = 0
    /\ Idle

NextTransform ==
    \/ Forward
    \/ Inverse

SpecTransform == InitTransform /\ [][NextTransform]_vars

-----------------------------------------------------------------------------
(* Two threads calling the accessors of one shared instance without a lock. *)
(* Each step is one bytecode-level stage of the accessor: the hasattr test, *)
(* the try / except of set_coords, each of its two attribute assignments,   *)
(* and the attribute read of the return statement.                          *)

Accessors == {"latitude", "longitude"}

InitThreads ==
    /\ Env
    /\ self \in Grids
    /\ ret = NoRet
    /\ stdout = 0
    /\ nset = 0
    /\ Idle

\* thread t calls grid.latitude or grid.longitude
Begin(t, a) ==
    /\ pc[t] = "idle"
    /\ pc' = [pc EXCEPT ![t] = "hasattr"]
    /\ acc' = [acc EXCEPT ![t] = a]
    /\ out' = [out EXCEPT ![t] = NoOut]
    /\ UNCHANGED <<_constant, dat, self, ret, stdout, nset, loc>>

\* if not hasattr(self, '_latitude'):
Test(t) ==
    /\ pc[t] = "hasattr"
    /\ pc' = [pc EXCEPT ![t] = IF hasattr(self, acc[t]) THEN "return" ELSE "set_coords"]
    /\ UNCHANGED <<_constant, dat, self, ret, stdout, nset, acc, loc, out>>

\* set_coords: the try / except binding the locals lon, lat
Compute(t) ==
    /\ pc[t] = "set_coords"
    /\ LET c == coords(self)
       IN  /\ nset' = nset + 1
           /\ stdout' = IF c.notice THEN stdout + 1 ELSE stdout
           /\ IF c.res.raised
              THEN /\ out' = [out EXCEPT ![t] =
                                 [done |-> TRUE, raised |-> TRUE, val |-> <<c.res.exc>>]]
                   /\ pc' = [pc EXCEPT ![t] = "idle"]
                   /\ UNCHANGED loc
              ELSE /\ loc' = [loc EXCEPT ![t] = c.res.val]
                   /\ pc' = [pc EXCEPT ![t] = "store_lat"]
                   /\ UNCHANGED out
    /\ UNCHANGED <<_constant, dat, self, ret, acc>>

\* self._latitude = lat
StoreLat(t) ==
    /\ pc[t] = "store_lat"
    /\ self' = [self EXCEPT !.latitude = loc[t][2]]
    /\ pc' = [pc EXCEPT ![t] = "store_lon"]
    /\ UNCHANGED <<_constant, dat, ret, stdout, nset, acc, loc, out>>

\* self._longitude = lon
StoreLon(t) ==
    /\ pc[t] = "store_lon"
    /\ self' = [self EXCEPT !.longitude = loc[t][1]]
    /\ loc' = [loc EXCEPT ![t] = <<>>]
    /\ pc' = [pc EXCEPT ![t] = "return"]
    /\ UNCHANGED <<_constant, dat, ret, stdout, nset, acc, out>>

\* return self._latitude: an AttributeError when the attribute is not there
Return(t) ==
    /\ pc[t] = "return"
    /\ out' = [out EXCEPT ![t] =
                  IF self[acc[t]] = NoAttr
                  THEN [done |-> TRUE, raised |-> TRUE, val |-> <<"AttributeError">>]
                  ELSE [done |-> TRUE, raised |-> FALSE, val |-> self[acc[t]]]]
    /\ pc' = [pc EXCEPT ![t] = "idle"]
    /\ UNCHANGED <<_constant, dat, self, ret, stdout, nset, acc, loc>>

NextThreads ==
    \E t \in Threads :
        \/ \E a \in Accessors : Begin(t, a)
        \/ Test(t)
        \/ Compute(t)
        \/ StoreLat(t)
        \/ StoreLon(t)
        \/ Return(t)

SpecThreads == InitThreads /\ [][NextThreads]_vars

-----------------------------------------------------------------------------
(* Properties *)

\* The family name and hemisphere marker of each class, written out.
Family ==
    [c \in Classes |->
        CASE c \in {"M1"} -> "M1" [] c \in {"M2"} -> "M2"
          [] c \in {"P1", "S1", "N1"} -> "P1" [] OTHER -> "P2"]

Marker ==
    [c \in Classes |->
        CASE c \in {"M1", "M2"} -> "M" [] c \in {"S1", "S2"} -> "S"
          [] c \in {"N1", "N2"} -> "N" [] OTHER -> "G"]

Constructed == self.cls # None

\* C1: forward and inverse are mutually inverse on every grid: feeding the pair
\* returned by inverse(r, s) to forward gives back (r, s), and feeding the pair
\* returned by forward(lon, lat) to inverse gives back (lon, lat).
C1_RoundTrip ==
    (ret.chained /\ ~ret.raised) => ret.val = ret.from

\* forward(inverse(2, -1)) has been computed on the southern version-1 polar grid.
C1_Witness ==
    /\ self.cls = "S1"
    /\ ret.op = "forward"
    /\ ret.chained
    /\ ret.from = <<R(2), R(-1)>>
    /\ ret.val = <<R(2), R(-1)>>

\* C5: constructing a grid with a resolution code outside its family's valid codes
\* raises the exception whose message lists the valid codes, before any attribute
\* of the instance (grid_name, projection, constants, grid_id) is assigned, and the
\* caller is left without an instance.
C5_InvalidName ==
    (ret.op = "__init__" /\ ret.args[2] \notin DOMAIN _constant[Family[ret.args[1]]]) =>
        /\ ret.raised
        /\ ret.val[1].exc = "Exception"
        /\ ret.val[1].text = "Valid grid name in "
        /\ ret.val[1].names = DOMAIN _constant[Family[ret.args[1]]]
        /\ ret.val[1].assigned = {}
        /\ ~Constructed

\* N2('g25') has been attempted: g25 is no code of the version-2 polar family in
\* either store.
C5_Witness ==
    /\ ret.op = "__init__"
    /\ ret.args = <<"N2", "g25">>
    /\ ret.raised

\* The grid_id a class and a resolution code must give.
ExpectedId(c, n) == Family[c] \o "_" \o Marker[c] \o "_" \o n

\* C6: every constructed grid's grid_id is family_marker_code ('G' for a class
\* without hemisphere marker), the ids of all constructible grids are pairwise
\* distinct, and no operation changes the grid_id of a constructed grid.
C6_GridId ==
    /\ [](Constructed => self.grid_id = ExpectedId(self.cls, self.grid_name))
    /\ [](\A g1, g2 \in Grids :
             g1.grid_id = g2.grid_id => (g1.cls = g2.cls /\ g1.grid_name = g2.grid_name))
    /\ [][Constructed => self'.grid_id = self.grid_id]_vars

\* A northern version-1 polar grid exists and has been operated on.
C6_Witness ==
    /\ self.cls = "N1"
    /\ self.grid_id = "P1_N_g25"
    /\ ret.op = "latitude"

\* C7: geotransform returns [s0, size, 0, r0, 0, size] of the constants the store
\* holds for the grid's family and resolution, and the call changes nothing of the
\* grid, the store, the files or the caches.
C7_Geotransform ==
    /\ [](ret.op = "geotransform" =>
            LET k == _constant[Family[self.cls]][self.grid_name]
            IN  ret.val = <<k.s0, k.size, R(0), k.r0, R(0), k.size>>)
    /\ [][ret'.op = "geotransform" => UNCHANGED <<_constant, dat, self, stdout, nset>>]_vars

\* geotransform has been read on a global grid whose two origins differ.
C7_Witness ==
    /\ ret.op = "geotransform"
    /\ self.cls = "M1"
    /\ self.constant.r0 # self.constant.s0
    /\ ret.val[1] = self.constant.s0

\* The instance as constructed, before any coordinate is cached.
Fresh(g) == [g EXCEPT !.latitude = NoAttr, !.longitude = NoAttr]

\* What a first access by a single caller caches.
First(g) == set_coords(Fresh(g))

\* C2: over any sequence of latitude and longitude accesses set_coords runs at most
\* once; the first access of either accessor caches both arrays, and every access
\* returns the cached array, which is the one the first access stored.
C2_ComputedOnce ==
    /\ nset <= 1
    /\ (Constructed /\ nset = 0) =>
          (self.latitude = NoAttr /\ self.longitude = NoAttr)
    /\ nset = 1 =>
          /\ self.latitude # NoAttr /\ self.longitude # NoAttr
          /\ self.latitude = First(self).latitude
          /\ self.longitude = First(self).longitude
    /\ ret.op \in Accessors => (~ret.raised /\ ret.val = self[ret.op])

\* longitude was read when an earlier access had already run set_coords.
C2_Witness ==
    /\ nset = 1
    /\ ret.op = "longitude"
    /\ ret.hit
    /\ ret.val = self.longitude

\* The failure kind of the file-backed path for a grid, from the grid and the files:
\* the kinds named by the specification, "other" for any other failure, "none" when
\* both files are present, readable and of rows x cols elements.
FileKind(g, f) ==
    CASE dat[f].kind = "absent" -> "absent"
      [] dat[f].kind = "denied" -> "other"
      [] Len(dat[f].elems) # g.constant.rows * g.constant.cols -> "corrupt"
      [] OTHER -> "none"

FailKind(g) ==
    IF Char2[Family[g.cls]] # "1" \/ g.grid_name \notin {"g25", "g12"} THEN "unsupported"
    ELSE IF Marker[g.cls] = "G" THEN "other"
    ELSE LET lat == Marker[g.cls] \o FILES[g.grid_name] \o "LATLSB"
             lon == Marker[g.cls] \o FILES[g.grid_name] \o "LONLSB"
         IN  IF FileKind(g, lat) # "none" THEN FileKind(g, lat) ELSE FileKind(g, lon)

Expected == {"unsupported", "absent", "corrupt"}

\* C3: when the file-backed path fails with an expected kind (unsupported grid,
\* file absent, corrupt layout), set_coords does not raise, writes the notice once
\* and caches exactly the arrays of from_array.
C3_Fallback ==
    (Constructed /\ nset = 1 /\ FailKind(self) \in Expected) =>
        /\ ret.op \in Accessors => ~ret.raised
        /\ stdout = 1
        /\ self.longitude = from_array(self).val[1]
        /\ self.latitude = from_array(self).val[2]

\* C3 without the corrupt-layout kind: what the code does guarantee.
C3_FallbackNoCorrupt ==
    (Constructed /\ nset = 1 /\ FailKind(self) \in {"unsupported", "absent"}) =>
        /\ ret.op \in Accessors => ~ret.raised
        /\ stdout = 1
        /\ self.longitude = from_array(self).val[1]
        /\ self.latitude = from_array(self).val[2]

\* C4: a failure of the file-backed path of any other kind propagates to the
\* caller of the accessor and nothing is cached.
C4_OtherPropagates ==
    (Constructed /\ nset >= 1 /\ FailKind(self) = "other") =>
        /\ ret.op \in Accessors => ret.raised
        /\ self.latitude = NoAttr
        /\ self.longitude = NoAttr

\* C8 as stated: element [row-1][col-1] of from_array's arrays is inverse(row, col).
C8_RowCol ==
    (ret.op = "from_array" /\ ~ret.raised) =>
        \A row \in 1..self.constant.rows, col \in 1..self.constant.cols :
            <<ret.val[1][row][col], ret.val[2][row][col]>> = inverse(self, R(row), R(col))

\* C8 amended: from_array returns a (lon, lat) pair of arrays of rows rows and cols
\* columns, and the element at row `row`, column `col` (1-based) is the component of
\* inverse(col, row): inverse takes the column index first.
C8_ColRow ==
    (ret.op = "from_array" /\ ~ret.raised) =>
        /\ Len(ret.val) = 2
        /\ \A k \in 1..2 :
              /\ Len(ret.val[k]) = self.constant.rows
              /\ \A row \in 1..self.constant.rows : Len(ret.val[k][row]) = self.constant.cols
        /\ \A row \in 1..self.constant.rows, col \in 1..self.constant.cols :
              <<ret.val[1][row][col], ret.val[2][row][col]>> = inverse(self, R(col), R(row))

\* from_array has returned on a grid with more columns than rows.
C8_Witness ==
    /\ ret.op = "from_array"
    /\ ~ret.raised
    /\ self.constant.cols > self.constant.rows

\* C9: _read_coord of a file whose element count is not rows x cols raises; a file
\* of exactly rows x cols elements decodes to the row-major reshape times 1e-5.
C9_CountMismatch ==
    (ret.op = "_read_coord" /\ dat[ret.args[1]].kind = "data") =>
        LET elems == dat[ret.args[1]].elems
            rows == self.constant.rows
            cols == self.constant.cols
        IN  IF Len(elems) # rows * cols
            THEN ret.raised
            ELSE /\ ~ret.raised
                 /\ \A i \in 1..rows, j \in 1..cols :
                       ret.val[i][j] = RMul(R(elems[(i - 1) * cols + j]), <<1, 100000>>)

\* The half of C9 about a file of exactly rows x cols elements.
C9_ExactDecodes ==
    (ret.op = "_read_coord" /\ dat[ret.args[1]].kind = "data"
        /\ Len(dat[ret.args[1]].elems) = self.constant.rows * self.constant.cols) =>
        /\ ~ret.raised
        /\ \A i \in 1..self.constant.rows, j \in 1..self.constant.cols :
              ret.val[i][j] =
                 RMul(R(dat[ret.args[1]].elems[(i - 1) * self.constant.cols + j]),
                      <<1, 100000>>)

\* C10: under every interleaving of two threads' accessor steps, every accessor call
\* returns (never raises) the array a single caller's first access would return, and
\* whatever is cached at any moment is that first access's array.
C10_RaceBenign ==
    LET first == First(self)
    IN  /\ \A t \in Threads :
              out[t].done => (~out[t].raised /\ out[t].val = first[acc[t]])
        /\ self.latitude # NoAttr => self.latitude = first.latitude
        /\ self.longitude # NoAttr => self.longitude = first.longitude

\* Both threads ran set_coords (the computation was duplicated) and both returned,
\* one the latitude and one the longitude.
C10_Witness ==
    /\ nset = 2
    /\ out[1].done /\ out[2].done
    /\ acc[1] = "latitude" /\ acc[2] = "longitude"

====
